---- MODULE Spec2Model ----
(***************************************************************************)
(* Model of the metadata aggregation plugins of ms-playground:             *)
(*   - metameta  (local_modules/metalsmith-metameta/index.js, 484-833)     *)
(*   - metadata  (local_modules/clean-meta/index.js)                       *)
(*                                                                         *)
(* Strings are sequences of tokens: "/" and "." are tokens of their own, a *)
(* name fragment ("src", "json", "a") is one token.  startsWith, includes, *)
(* replace, split and extname work on these sequences the way the          *)
(* JavaScript functions work on characters.                                *)
(*                                                                         *)
(* A JavaScript value (the metadata object, a parsed file) is a function   *)
(* from property paths to node tags: "obj", "arr" or a scalar.             *)
(***************************************************************************)
EXTENDS Integers, Sequences, FiniteSets, TLC

(***************************************************************************)
(* Bounds                                                                  *)
(***************************************************************************)
MaxSpecs == 2

(***************************************************************************)
(* String helpers (String.prototype.startsWith / includes / replace /      *)
(* split, Array.prototype.reverse)                                         *)
(***************************************************************************)
startsWith(s, p) ==
  /\ Len(p) <= Len(s)
  /\ SubSeq(s, 1, Len(p)) = p

IndexOf(s, p) ==
  LET hits == {j \in 1..(Len(s) + 1) :
                 /\ j + Len(p) - 1 <= Len(s)
                 /\ SubSeq(s, j, j + Len(p) - 1) = p}
  IN IF hits = {} THEN 0 ELSE CHOOSE j \in hits : \A h \in hits : j <= h

includes(s, p) == IndexOf(s, p) # 0

replace(s, p, r) ==
  LET j == IndexOf(s, p)
  IN IF j = 0 THEN s
     ELSE SubSeq(s, 1, j - 1) \o r \o SubSeq(s, j + Len(p), Len(s))

LastIndexOfTok(s, tok) ==
  LET hits == {j \in 1..Len(s) : s[j] = tok}
  IN IF hits = {} THEN 0 ELSE CHOOSE j \in hits : \A h \in hits : h <= j

RECURSIVE split(_)
split(s) ==
  LET hits == {j \in 1..Len(s) : s[j] = "."}
  IN IF hits = {} THEN <<s>>
     ELSE LET j == CHOOSE h \in hits : \A g \in hits : h <= g
          IN <<SubSeq(s, 1, j - 1)>> \o split(SubSeq(s, j + 1, Len(s)))

reverse(s) == [j \in 1..Len(s) |-> s[Len(s) + 1 - j]]

(***************************************************************************)
(* path.extname, path.basename, path.join                                  *)
(***************************************************************************)
basename(p) == SubSeq(p, LastIndexOfTok(p, "/") + 1, Len(p))

extension(p) ==
  LET b == basename(p)
      d == LastIndexOfTok(b, ".")
  IN IF d <= 1 THEN <<>> ELSE SubSeq(b, d, Len(b))

\* join(metalsmith.directory(), p): the path below the project root,
\* normalised (a leading "./" is dropped)
RECURSIVE join(_)
join(p) ==
  IF Len(p) >= 2 /\ p[1] = "." /\ p[2] = "/" THEN join(SubSeq(p, 3, Len(p)))
  ELSE p

(***************************************************************************)
(* JavaScript values as trees                                              *)
(***************************************************************************)
Undefined == (<<>> :> "undefined")
EmptyObject == (<<>> :> "obj")

Sub(t, p) ==
  LET dom == {SubSeq(r, Len(p) + 1, Len(r)) :
                r \in {r \in DOMAIN t : startsWith(r, p)}}
  IN IF dom = {} THEN Undefined ELSE [q \in dom |-> t[p \o q]]

\* t[k] = v
SetProp(t, k, v) ==
  LET keep == {r \in DOMAIN t : ~startsWith(r, <<k>>)}
      add == {<<k>> \o q : q \in DOMAIN v}
  IN [r \in keep \cup add |-> IF r \in add THEN v[Tail(r)] ELSE t[r]]

OwnProps(v) ==
  IF v[<<>>] \in {"obj", "arr"} THEN {r[1] : r \in DOMAIN v \ {<<>>}} ELSE {}

\* { [key]: v }
Wrap(key, v) == SetProp(EmptyObject, key, v)

\* Object.assign({}, a, b)
ObjectAssign(a, b) ==
  LET pb == OwnProps(b)
      pa == OwnProps(a) \ pb
      dom == {<<>>} \cup {r \in DOMAIN a : Len(r) > 0 /\ r[1] \in pa}
                    \cup {r \in DOMAIN b : Len(r) > 0 /\ r[1] \in pb}
  IN [r \in dom |-> IF r = <<>> THEN "obj"
                    ELSE IF r[1] \in pb THEN b[r] ELSE a[r]]

IndexNames == <<"0", "1", "2", "3", "4", "5", "6", "7">>

\* the array [vals[1], vals[2], ...]
ArrayOf(vals) ==
  LET dom == {<<>>} \cup
             UNION {{<<<<IndexNames[j]>>>> \o q : q \in DOMAIN vals[j]} :
                      j \in 1..Len(vals)}
      pos(r) == CHOOSE j \in 1..Len(vals) : r[1] = <<IndexNames[j]>>
  IN [r \in dom |-> IF r = <<>> THEN "arr" ELSE vals[pos(r)][Tail(r)]]

(***************************************************************************)
(* Inputs: file contents, the content set, the disk, the option map        *)
(***************************************************************************)
\* the parsed value of each data file of the model
ValueOf(id) ==
  CASE id = "A" -> (<<>> :> "obj" @@ <<<<"x">>>> :> "1")
    [] id = "B" -> (<<>> :> "obj" @@ <<<<"y">>>> :> "2")
    [] id = "C" -> (<<>> :> "obj" @@ <<<<"b">>>> :> "obj"
                                 @@ <<<<"b">>, <<"z">>>> :> "3")
    [] id = "E" -> (<<>> :> "obj" @@ <<<<"x">>>> :> "4")
    [] id = "G" -> (<<>> :> "obj" @@ <<<<"t">>>> :> "5")
    [] id = "D1" -> (<<>> :> "obj" @@ <<<<"u">>>> :> "6")
    [] id = "D2" -> (<<>> :> "obj" @@ <<<<"w">>>> :> "7")
    [] OTHER -> Undefined

\* bytes: the format they are written in ("bad" is malformed in every
\* format, "page" is a page with front matter) and the value they encode
Bytes(enc, id) == [enc |-> enc, val |-> id]

metalsmithSource == <<"src", "/", "content">>

\* content-set keys (relative to the content root)
F1 == <<"d", "/", "a", ".", "json">>
F2 == <<"d", "/", "b", ".", "yaml">>
F3 == <<"x", "/", "d", "/", "c", ".", "toml">>
F4 == <<"index", ".", "md">>
F5 == <<"y", ".", "yml">>

GoodFiles ==
  << [path |-> F1, contents |-> Bytes("json", "A")],
     [path |-> F2, contents |-> Bytes("yaml", "B")],
     [path |-> F3, contents |-> Bytes("toml", "C")],
     [path |-> F4, contents |-> Bytes("page", "P")] >>

Spoil(fs, bad) ==
  [j \in 1..Len(fs) |->
     IF fs[j].path \in bad
       THEN [path |-> fs[j].path, contents |-> Bytes("bad", fs[j].contents.val)]
       ELSE fs[j]]

FilesGood == Spoil(GoodFiles, {})
FilesBad1 == Spoil(GoodFiles, {F1})
FilesPage == SubSeq(GoodFiles, 4, 4)

\* the same data written in each of the formats
FilesSame ==
  << [path |-> F1, contents |-> Bytes("json", "A")],
     [path |-> F2, contents |-> Bytes("yaml", "A")],
     [path |-> F3, contents |-> Bytes("toml", "A")],
     [path |-> F5, contents |-> Bytes("yaml", "A")] >>

\* paths below the project root, outside the content root
X1 == <<"ext", "/", "f", ".", "json">>
X2 == <<"ext", "/", "g", ".", "toml">>
XD == <<"ext", "/", "dir">>
XDa == XD \o <<"/", "a", ".", "json">>
XDb == XD \o <<"/", "sub", "/", "b", ".", "yaml">>
XDr == XD \o <<"/", "readme", ".", "md">>

DiskFile(p, st, enc, id) == [path |-> p, st |-> st, contents |-> Bytes(enc, id)]

GoodDisk ==
  { DiskFile(X1, "ok", "json", "E"), DiskFile(X2, "ok", "toml", "G"),
    DiskFile(XDa, "ok", "json", "D1"), DiskFile(XDb, "ok", "yaml", "D2") }

\* a disk: its files (st "ioerr": the read fails) and its directories
DiskGood == [files |-> GoodDisk, dirs |-> {XD}]
DiskNoX1 == [files |-> GoodDisk \ {DiskFile(X1, "ok", "json", "E")}, dirs |-> {XD}]
DiskBadX1 ==
  [files |-> (GoodDisk \ {DiskFile(X1, "ok", "json", "E")})
               \cup {DiskFile(X1, "ok", "bad", "E")}, dirs |-> {XD}]
DiskErrX2 ==
  [files |-> (GoodDisk \ {DiskFile(X2, "ok", "toml", "G")})
               \cup {DiskFile(X2, "ioerr", "toml", "G")}, dirs |-> {XD}]
DiskReadme == [files |-> GoodDisk \cup {DiskFile(XDr, "ok", "page", "P")}, dirs |-> {XD}]
DiskEmptyDir == [files |-> {r \in GoodDisk : ~startsWith(r.path, XD)}, dirs |-> {XD}]
DiskNoDir == [files |-> {r \in GoodDisk : ~startsWith(r.path, XD)}, dirs |-> {}]

Disks == {DiskGood, DiskNoX1, DiskBadX1, DiskErrX2, DiskReadme, DiskEmptyDir, DiskNoDir}

\* the content set and the disk of a run
Worlds ==
  {[files |-> FilesGood, disk |-> d] : d \in Disks}
    \cup {[files |-> FilesPage, disk |-> d] : d \in {DiskGood, DiskNoX1}}
    \cup {[files |-> FilesBad1, disk |-> DiskGood]}
    \cup {[files |-> FilesSame, disk |-> DiskGood]}

\* destination keys and source paths of the option map
SpecKeys == { <<"k">>, <<"m">>, <<"a", ".", "b">>, <<"a", ".", "c">> }

DeepKeys == { <<"a", ".", "b", ".", "c">>, <<"a", ".", "b", ".", "d">> }

LocalFilePaths ==
  { metalsmithSource \o <<"/">> \o F1,
    metalsmithSource \o <<"/">> \o F2 }

LocalPaths == LocalFilePaths \cup { metalsmithSource \o <<"/", "d">> }

SpecPaths == LocalPaths \cup { X1, X2, XD, XDr }

\* a path of the content root written with "./" in front (as the build
\* script writes its paths), a path in a sibling directory whose name starts
\* with the name of the content root, and the local .toml and .yml files
DotPath == <<".", "/">> \o metalsmithSource \o <<"/">> \o F1
SiblingPath == <<"src", "/", "content", "-extra", "/", "f", ".", "json">>

MorePaths ==
  { DotPath, SiblingPath,
    metalsmithSource \o <<"/">> \o F3,
    metalsmithSource \o <<"/">> \o F5 }

\* the entries an option map is made of (among them a key that is also the
\* path of a page of the content set, and a key below a scalar of a data
\* file)
Specs ==
  [key : {<<"k">>}, path : SpecPaths \cup MorePaths]
    \cup [key : {<<"m">>}, path : {metalsmithSource \o <<"/">> \o F2,
                                   metalsmithSource \o <<"/", "d">>, X2}]
    \cup [key : {<<"a", ".", "b">>}, path : {metalsmithSource \o <<"/">> \o F1,
                                             metalsmithSource \o <<"/", "d">>, X1}]
    \cup [key : {<<"a", ".", "c">>, <<"a">>},
          path : {metalsmithSource \o <<"/">> \o F1, metalsmithSource \o <<"/", "d">>}]
    \cup { [key |-> <<"a", ".", "b", ".", "c">>, path |-> metalsmithSource \o <<"/">> \o F1],
           [key |-> <<"a", ".", "b", ".", "d">>, path |-> metalsmithSource \o <<"/">> \o F2],
           [key |-> F4, path |-> metalsmithSource \o <<"/">> \o F1],
           [key |-> <<"k", ".", "x">>, path |-> X1] }

\* option maps: an object has one entry per key, in insertion order
OptionMaps ==
  UNION { { s \in [1..n -> Specs] :
              \A i, j \in 1..n : i # j => s[i].key # s[j].key } :
          n \in 0..MaxSpecs }

(***************************************************************************)
(* Format parsers                                                          *)
(***************************************************************************)
ParserExts == { <<".", "json">>, <<".", "yaml">>, <<".", "yml">>, <<".", "toml">> }

\* parsers[ext](bytes): TRUE when the parser returns, FALSE when it throws
parsers(ext, bytes) ==
  CASE ext = <<".", "json">> -> bytes.enc = "json"
    [] ext \in {<<".", "yaml">>, <<".", "yml">>} -> bytes.enc \in {"yaml", "json"}
    [] ext = <<".", "toml">> -> bytes.enc = "toml"
    [] OTHER -> FALSE

\* a toJson whose result keeps a trace of the format it was read from
toJson_ByFormat(file, path) ==
  IF parsers(extension(path), file)
    THEN [ok |-> TRUE,
          val |-> IF extension(path) = <<".", "json">> THEN ValueOf(file.val)
                  ELSE Wrap(extension(path), ValueOf(file.val)),
          err |-> "none", path |-> path]
    ELSE [ok |-> FALSE, val |-> Undefined, err |-> "malformed", path |-> path]

\* toJson(file, path): the parsed value, or the Error it throws
toJson(file, path) ==
  IF parsers(extension(path), file)
    THEN [ok |-> TRUE, val |-> ValueOf(file.val), err |-> "none", path |-> path]
    ELSE [ok |-> FALSE, val |-> Undefined, err |-> "malformed", path |-> path]

(***************************************************************************)
(* metameta: helpers                                                       *)
(***************************************************************************)
\* the four groups with a local-directory test that forgets the extension
groupMetadataSources_Overlap(arr, src) ==
  << SelectSeq(arr, LAMBDA v : extension(v.path) # <<>> /\ startsWith(v.path, src)),
     SelectSeq(arr, LAMBDA v : startsWith(v.path, src)),
     SelectSeq(arr, LAMBDA v : extension(v.path) # <<>> /\ ~startsWith(v.path, src)),
     SelectSeq(arr, LAMBDA v : extension(v.path) = <<>> /\ ~startsWith(v.path, src)) >>

\* the four groups, in the order the plugin works through them
groupMetadataSources(arr, src) ==
  << SelectSeq(arr, LAMBDA v : extension(v.path) # <<>> /\ startsWith(v.path, src)),
     SelectSeq(arr, LAMBDA v : extension(v.path) = <<>> /\ startsWith(v.path, src)),
     SelectSeq(arr, LAMBDA v : extension(v.path) # <<>> /\ ~startsWith(v.path, src)),
     SelectSeq(arr, LAMBDA v : extension(v.path) = <<>> /\ ~startsWith(v.path, src)) >>

RECURSIVE NestReduce(_, _, _)
NestReduce(path, Obj, j) ==
  IF j = 1 THEN Wrap(path[1], Obj)
  ELSE Wrap(path[j], NestReduce(path, Obj, j - 1))

getNestedObject(fileKey, Obj) ==
  LET path == reverse(split(fileKey))
      resultingObject == NestReduce(path, Obj, Len(path))
  IN Sub(resultingObject, <<path[Len(path)]>>)

\* the nested placement without the merge: allMetadata[path[0]] = newMetadata
NestedPlace_Overwrite(t, key, metadata) ==
  SetProp(t, split(key)[1], getNestedObject(key, metadata))

\* allMetadata[path[0]] = Object.assign({}, allMetadata[path[0]], newMetadata)
NestedPlace(t, key, metadata) ==
  LET path == split(key)
  IN SetProp(t, path[1],
             ObjectAssign(Sub(t, <<path[1]>>), getNestedObject(key, metadata)))

\* the placement that merges also at a key without '.'
Place_Merge(t, key, metadata) ==
  IF includes(key, <<".">>) THEN NestedPlace(t, key, metadata)
  ELSE SetProp(t, key, ObjectAssign(Sub(t, <<key>>), metadata))

\* the placement of a local file or local directory
Place(t, key, metadata) ==
  IF includes(key, <<".">>) THEN NestedPlace(t, key, metadata)
  ELSE SetProp(t, key, metadata)

FilesIndex(fs, p) ==
  LET hits == {j \in 1..Len(fs) : fs[j].path = p}
  IN IF hits = {} THEN 0 ELSE CHOOSE j \in hits : TRUE

\* the entry renamed instead of deleted
FilesDelete_Rename(fs, p) ==
  [j \in 1..Len(fs) |->
     IF fs[j].path = p THEN [fs[j] EXCEPT !.path = p \o <<".", "done">>] ELSE fs[j]]

\* delete files[p]
FilesDelete(fs, p) == SelectSeq(fs, LAMBDA f : f.path # p)

FilesKeys(fs) == {fs[j].path : j \in 1..Len(fs)}

NoError == [err |-> "none", path |-> <<>>]
Error(kind, p) == [err |-> kind, path |-> p]

(***************************************************************************)
(* State                                                                   *)
(***************************************************************************)
VARIABLES
  plugin,    \* "metameta", "metadata" or "timer" (index-copy.js): the plugin
             \* function that runs
  options,   \* the option map: a sequence of [key, path]
  files,     \* the content set: a sequence of [path, contents]
  disk,      \* the files and directories outside the content set
  tree,      \* metalsmith.metadata()
  pc,        \* "start", "sync" (inside the plugin function), "async"
             \* (the plugin function has returned), "threw"
  work,      \* metameta: the four groups of 746, one after the other
  idx,       \* position in work (metameta) or in the option map (metadata)
  tasks,     \* the promises pushed to allPromises
  joined,    \* "none", "waiting" (Promise.all registered), "fired"
  doneLog,   \* the arguments of the invocations of done, in order
  thrown,    \* the exception that left the plugin function
  hist,      \* history: the processed local specifications and the settled
             \* external files, in order, with the value each one produced
  frontmatter \* setting: metalsmith.frontmatter(), whether files are read
             \* with frontmatter parsing; saved: the constant of
             \* clean-meta/index.js 125

vars == <<plugin, options, files, disk, tree, pc, work, idx, tasks, joined,
          doneLog, thrown, hist, frontmatter>>

Event(op, key, p, val, placed) ==
  [op |-> op, key |-> key, path |-> p, val |-> val, placed |-> placed]

InitialMetadata == (<<>> :> "obj" @@ <<<<"buildDate">>>> :> "date")

Work(opts) ==
  LET g == groupMetadataSources(opts, metalsmithSource)
      tag(s, grp) == [j \in 1..Len(s) |->
                        [grp |-> grp, key |-> s[j].key, path |-> s[j].path]]
  IN tag(g[1], "localFile") \o tag(g[2], "localDir")
       \o tag(g[3], "externalFile") \o tag(g[4], "externalDir")

InitOf(p) ==
  /\ plugin = p
  /\ options \in OptionMaps
  /\ \E w \in Worlds : files = w.files /\ disk = w.disk
  /\ tree = InitialMetadata
  /\ pc = "start"
  /\ work = <<>>
  /\ idx = 1
  /\ tasks = <<>>
  /\ joined = "none"
  /\ doneLog = <<>>
  /\ thrown = NoError
  /\ hist = <<>>
  /\ frontmatter = [setting |-> TRUE, saved |-> "none"]

Init == InitOf("metameta")

(***************************************************************************)
(* metameta: the synchronous part (index.js 721-829)                       *)
(***************************************************************************)
\* 721-746: the check for an empty option map does not return
Start ==
  /\ pc = "start"
  /\ doneLog' = IF Len(options) = 0 THEN Append(doneLog, NoError) ELSE doneLog
  /\ work' = Work(options)
  /\ pc' = "sync"
  /\ idx' = 1
  /\ UNCHANGED <<frontmatter, plugin, options, files, disk, tree, tasks, joined, thrown, hist>>

Throw(e) ==
  /\ pc' = "threw"
  /\ thrown' = e
  /\ UNCHANGED <<frontmatter, plugin, work, options, files, disk, tree, idx, tasks, joined,
                 doneLog, hist>>

\* 748-772
LocalFile ==
  /\ pc = "sync"
  /\ idx <= Len(work)
  /\ work[idx].grp = "localFile"
  /\ LET file == work[idx]
         filePath == replace(file.path, metalsmithSource \o <<"/">>, <<>>)
         pos == FilesIndex(files, filePath)
     IN IF pos = 0 THEN Throw(Error("TypeError", filePath))
        ELSE LET r == toJson(files[pos].contents, filePath)
             IN IF ~r.ok THEN Throw(Error(r.err, r.path))
                ELSE /\ tree' = Place(tree, file.key, r.val)
                     /\ files' = FilesDelete(files, file.key)
                     /\ hist' = Append(hist, Event("localFile", file.key,
                                                    filePath, r.val, TRUE))
                     /\ idx' = idx + 1
                     /\ UNCHANGED <<frontmatter, plugin, work, options, disk, pc, tasks, joined,
                                    doneLog, thrown>>

\* 774-806
LocalDir ==
  /\ pc = "sync"
  /\ idx <= Len(work)
  /\ work[idx].grp = "localDir"
  /\ LET dir == work[idx]
         filePath == replace(dir.path, metalsmithSource \o <<"/">>, <<>>)
         matches == SelectSeq(files, LAMBDA f : includes(f.path, filePath))
         parsed == [j \in 1..Len(matches) |->
                      toJson(matches[j].contents, matches[j].path)]
         failing == {j \in 1..Len(matches) : ~parsed[j].ok}
         groupMetadata == ArrayOf([j \in 1..Len(matches) |-> parsed[j].val])
     IN IF failing # {}
          THEN LET j == CHOOSE f \in failing : \A g \in failing : f <= g
               IN Throw(Error(parsed[j].err, parsed[j].path))
          ELSE /\ IF Len(matches) > 0
                    THEN /\ tree' = Place(tree, dir.key, groupMetadata)
                         /\ doneLog' = doneLog
                    ELSE /\ tree' = tree
                         /\ doneLog' = Append(doneLog, Error("NoFilesFound", <<"[object Object]">>))
               /\ hist' = Append(hist, Event("localDir", dir.key, filePath,
                                              groupMetadata, Len(matches) > 0))
               /\ idx' = idx + 1
               /\ UNCHANGED <<frontmatter, plugin, work, options, files, disk, pc, tasks, joined, thrown>>

NoFile == [present |-> FALSE, contents |-> Bytes("none", "none")]

NewTask(kind, key, p, st) ==
  [kind |-> kind, key |-> key, path |-> p, st |-> st, pending |-> {},
   got |-> {}, group |-> Undefined, reason |-> "none", file |-> NoFile]

\* 808-814: getFileObject starts the read
DispatchExternalFile ==
  /\ pc = "sync"
  /\ idx <= Len(work)
  /\ work[idx].grp = "externalFile"
  /\ tasks' = Append(tasks, NewTask("file", work[idx].key, join(work[idx].path), "pending"))
  /\ idx' = idx + 1
  /\ UNCHANGED <<frontmatter, plugin, work, options, files, disk, tree, pc, joined, doneLog, thrown, hist>>

\* 816-823: getDirectoryObject starts the listing
DispatchExternalDir ==
  /\ pc = "sync"
  /\ idx <= Len(work)
  /\ work[idx].grp = "externalDir"
  /\ tasks' = Append(tasks, NewTask("dir", work[idx].key, join(work[idx].path), "listing"))
  /\ idx' = idx + 1
  /\ UNCHANGED <<frontmatter, plugin, work, options, files, disk, tree, pc, joined, doneLog, thrown, hist>>

\* 825-829: Promise.all(allPromises).then(...) is registered, metameta returns
Return ==
  /\ pc = "sync"
  /\ idx > Len(work)
  /\ joined' = "waiting"
  /\ pc' = "async"
  /\ UNCHANGED <<frontmatter, plugin, work, options, files, disk, tree, idx, tasks, doneLog, thrown, hist>>

(***************************************************************************)
(* metameta: the external tasks (index.js 607-688) and the join (825-828)  *)
(***************************************************************************)
\* 621: the key of a file found below directoryPath
DirectoryFileKey(file, directoryPath) ==
  LET rest == replace(file, directoryPath, <<>>)
  IN replace(SubSeq(rest, 2, Len(rest)), extension(file), <<>>)

RECURSIVE GroupObject(_)
GroupObject(got) ==
  IF got = {} THEN EmptyObject
  ELSE LET x == CHOOSE y \in got : TRUE
       IN SetProp(GroupObject(got \ {x}), x.key, ValueOf(x.val))

\* the files of the content root as they lie on the disk
ContentOnDisk ==
  {DiskFile(metalsmithSource \o <<"/">> \o files[j].path, "ok",
            files[j].contents.enc, files[j].contents.val) : j \in 1..Len(files)}

\* getExternalFile(filePath): readFile, then toJson
getExternalFile(filePath) ==
  LET hits == {r \in disk.files \cup ContentOnDisk : r.path = filePath}
      rec == CHOOSE r \in hits : TRUE
  IN IF hits = {} THEN [ok |-> FALSE, val |-> Undefined, err |-> "ENOENT", path |-> filePath]
     ELSE IF rec.st = "ioerr"
       THEN [ok |-> FALSE, val |-> Undefined, err |-> "EIO", path |-> filePath]
       ELSE toJson(rec.contents, filePath) @@ [id |-> rec.contents.val]

\* the join of Promise.any: one fulfilled task is enough
AllFulfilled_Any(ts) ==
  Len(ts) = 0 \/ \E t \in 1..Len(ts) : ts[t].st = "resolved"

\* Promise.all(allPromises) is fulfilled
AllFulfilled(ts) == \A t \in 1..Len(ts) : ts[t].st = "resolved"

\* (a rejected task rejects Promise.all(allPromises); nothing handles the
\* rejection and the callback of 826 never runs)

\* every external file written to one shared property
FilePlace_Shared(t, optionKey, fileBuffer) == SetProp(t, <<"ext">>, fileBuffer)

\* 657: allMetadata[optionKey] = fileBuffer
FilePlace(t, optionKey, fileBuffer) == SetProp(t, optionKey, fileBuffer)

\* 655-660: the read of an external file completes
ExtFileSettle(t) ==
  /\ pc = "async"
  /\ t \in 1..Len(tasks)
  /\ tasks[t].kind = "file"
  /\ tasks[t].st = "pending"
  /\ LET r == getExternalFile(tasks[t].path)
     IN /\ tree' = IF r.ok THEN FilePlace(tree, tasks[t].key, r.val) ELSE tree
        /\ tasks' = IF r.ok THEN [tasks EXCEPT ![t].st = "resolved"]
                    ELSE [tasks EXCEPT ![t].st = "rejected", ![t].reason = r.err]
        /\ hist' = Append(hist, Event("externalFile", tasks[t].key,
                                      tasks[t].path, r.val, r.ok))
  /\ UNCHANGED <<frontmatter, plugin, work, options, files, disk, pc, idx, joined, doneLog, thrown>>

\* 674-683: groupMetadata is an object, its length is undefined, and the
\* else branch names done and key, which are not in scope: the
\* ReferenceError goes to the catch of 685
\* the same without the catch of 685: the promise of the directory is
\* rejected with the ReferenceError
DirectoryThen_Uncaught(task) ==
  [task EXCEPT !.st = "rejected", !.group = GroupObject(task.got),
               !.reason = "ReferenceError"]

DirectoryThen(task) ==
  [task EXCEPT !.st = "resolved", !.group = GroupObject(task.got),
               !.reason = "ReferenceError"]

\* 617-629: the listing of an external directory completes and the reads
\* of its files start
ExtDirList(t) ==
  /\ pc = "async"
  /\ t \in 1..Len(tasks)
  /\ tasks[t].kind = "dir"
  /\ tasks[t].st = "listing"
  /\ LET list == {r.path : r \in {r \in disk.files :
                                    startsWith(r.path, tasks[t].path \o <<"/">>)}}
     IN tasks' = [tasks EXCEPT ![t] =
          IF tasks[t].path \notin disk.dirs
            THEN [@ EXCEPT !.st = "resolved", !.reason = "ENOENT"]
          ELSE IF list = {} THEN DirectoryThen(@)
          ELSE [@ EXCEPT !.st = "reading", !.pending = list]]
  /\ UNCHANGED <<frontmatter, plugin, work, options, files, disk, tree, pc, idx, joined, doneLog,
                 thrown, hist>>

\* 637-646, 669-688: the read of one file of an external directory completes
ExtDirRead(t, p) ==
  /\ pc = "async"
  /\ t \in 1..Len(tasks)
  /\ tasks[t].kind = "dir"
  /\ p \in tasks[t].pending
  /\ LET r == getExternalFile(p)
         rest == tasks[t].pending \ {p}
     IN tasks' = [tasks EXCEPT ![t] =
          IF r.ok
            THEN LET next == [@ EXCEPT !.pending = rest,
                                !.got = @ \cup {[key |-> DirectoryFileKey(p, tasks[t].path),
                                                 val |-> r.id]}]
                 IN IF next.st = "reading" /\ rest = {} THEN DirectoryThen(next)
                    ELSE next
            ELSE IF @.st = "reading"
              THEN [@ EXCEPT !.pending = rest, !.st = "resolved", !.reason = r.err]
              ELSE [@ EXCEPT !.pending = rest]]
  /\ UNCHANGED <<frontmatter, plugin, work, options, files, disk, tree, pc, idx, joined, doneLog,
                 thrown, hist>>

\* 826-828: the callback of Promise.all(allPromises).then
JoinThen ==
  /\ pc = "async"
  /\ joined = "waiting"
  /\ AllFulfilled(tasks)
  /\ joined' = "fired"
  /\ doneLog' = Append(doneLog, NoError)
  /\ UNCHANGED <<frontmatter, plugin, work, options, files, disk, tree, pc, idx, tasks, thrown, hist>>

Next ==
  \/ Start
  \/ LocalFile
  \/ LocalDir
  \/ DispatchExternalFile
  \/ DispatchExternalDir
  \/ Return
  \/ \E t \in 1..Len(tasks) : ExtFileSettle(t)
  \/ \E t \in 1..Len(tasks) : ExtDirList(t)
  \/ \E t \in 1..Len(tasks) : \E p \in tasks[t].pending : ExtDirRead(t, p)
  \/ JoinThen

Spec == Init /\ [][Next]_vars

TypeOK ==
  /\ plugin \in {"metameta", "metadata", "timer"}
  /\ pc \in {"start", "sync", "validate", "dispatch", "async", "threw", "exit"}
  /\ joined \in {"none", "waiting", "files", "fired"}
  /\ idx \in 1..(Len(options) + 1)
  /\ \A t \in 1..Len(tasks) :
       tasks[t].st \in {"pending", "listing", "reading", "resolved", "rejected", "failed"}

(***************************************************************************)
(* metadata (clean-meta/index.js): helpers                                 *)
(***************************************************************************)
\* SetProp at a property path: host[p] = v for the node host at the parent
SetAt(t, p, v) ==
  LET keep == {r \in DOMAIN t : ~startsWith(r, p)}
      add == {p \o q : q \in DOMAIN v}
  IN [r \in keep \cup add |-> IF r \in add THEN v[SubSeq(r, Len(p) + 1, Len(r))]
                              ELSE t[r]]

\* 45-60: set(host, keypath, value), host being the node at prefix
RECURSIVE setFrom(_, _, _, _)
setFrom(t, prefix, parts, value) ==
  LET part == Head(parts)
      here == prefix \o <<part>>
  IN IF Len(parts) > 1
       THEN IF here \notin DOMAIN t
              THEN setFrom(SetAt(t, here, EmptyObject), here, Tail(parts), value)
            ELSE IF t[here] \notin {"obj", "arr"} THEN t
            ELSE setFrom(t, here, Tail(parts), value)
       ELSE SetAt(t, here, value)

set(host, keypath, value) == setFrom(host, <<>>, split(keypath), value)

\* relpath(filepath, metalsmith.source()): the path relative to the content
\* root; it starts with ".." when the path lies outside
relpath(filepath) ==
  LET p == join(filepath)
  IN IF p = metalsmithSource THEN <<>>
     ELSE IF startsWith(p, metalsmithSource \o <<"/">>)
       THEN SubSeq(p, Len(metalsmithSource) + 2, Len(p))
     ELSE <<".", ".", "/", ".", ".", "/">> \o p

\* metalsmith.match(extglob, input): the data files among the input paths
match(input) == SelectSeq(input, LAMBDA f : extension(f) \in ParserExts)

\* basename(f, extname(f))
stem(f) ==
  LET b == basename(f)
  IN SubSeq(b, 1, Len(b) - Len(extension(f)))

FilePaths(fs) == [j \in 1..Len(fs) |-> fs[j].path]

FileOf(fs, p) ==
  IF FilesIndex(fs, p) = 0 THEN NoFile
  ELSE [present |-> TRUE, contents |-> fs[FilesIndex(fs, p)].contents]

(***************************************************************************)
(* metadata: the synchronous part (clean-meta/index.js 116-212)            *)
(***************************************************************************)
\* 116-131: the check for an empty option map does not return; 125-126 read
\* the frontmatter setting and write the value read back
CleanStart ==
  /\ plugin = "metadata"
  /\ pc = "start"
  /\ doneLog' = IF Len(options) = 0 THEN Append(doneLog, NoError) ELSE doneLog
  /\ pc' = "validate"
  /\ idx' = 1
  /\ frontmatter' = [setting |-> frontmatter.setting, saved |-> frontmatter.setting]
  /\ UNCHANGED <<plugin, work, options, files, disk, tree, tasks, joined, thrown, hist>>

\* 136-145: the error handling in front; done does not end the loop
CleanValidate ==
  /\ pc = "validate"
  /\ idx <= Len(options)
  /\ LET filepath == options[idx].path
         srcPath == relpath(filepath)
         unsupported == Len(match(<<filepath>>)) = 0
         notFound == /\ ~startsWith(srcPath, <<".", ".">>)
                     /\ FilesIndex(files, srcPath) = 0
     IN doneLog' = doneLog
          \o (IF unsupported THEN <<Error("unsupported", filepath)>> ELSE <<>>)
          \o (IF notFound THEN <<Error("notFound", join(filepath))>> ELSE <<>>)
  /\ idx' = IF idx = Len(options) THEN 1 ELSE idx + 1
  /\ pc' = IF idx = Len(options) THEN "dispatch" ELSE pc
  /\ UNCHANGED <<frontmatter, plugin, work, options, files, disk, tree, tasks, joined, thrown, hist>>

\* 148-212: one entry of the option map
CleanDispatch ==
  /\ pc = "dispatch"
  /\ idx <= Len(options)
  /\ LET dest == options[idx].key
         filepath == options[idx].path
         srcPath == relpath(filepath)
         local(p, key) == [NewTask("local", key, p, "resolved")
                             EXCEPT !.file = FileOf(files, p)]
         matches == match(SelectSeq(FilePaths(files),
                                    LAMBDA f : startsWith(f, srcPath \o <<"/">>)))
     IN tasks' = tasks \o
          (IF ~startsWith(srcPath, <<".", ".">>)
             THEN IF extension(basename(srcPath)) # <<>>
                    THEN <<local(srcPath, dest)>>
                    ELSE [j \in 1..Len(matches) |->
                            local(matches[j], dest \o <<".">> \o stem(matches[j]))]
           ELSE IF extension(filepath) # <<>>
             THEN <<NewTask("file", dest \o <<".">> \o stem(filepath),
                            join(filepath), "pending")>>
           ELSE <<NewTask("dir", dest, join(filepath), "listing")>>)
  /\ idx' = idx + 1
  /\ UNCHANGED <<frontmatter, plugin, work, options, files, disk, tree, pc, joined, doneLog, thrown, hist>>

\* 214-260: the promise chain is set up, metadata returns
CleanReturn ==
  /\ plugin = "metadata"
  /\ \/ pc = "dispatch" /\ idx > Len(options)
     \/ pc = "validate" /\ Len(options) = 0
  /\ joined' = "waiting"
  /\ pc' = "async"
  /\ UNCHANGED <<frontmatter, plugin, work, options, files, disk, tree, idx, tasks, doneLog, thrown, hist>>

(***************************************************************************)
(* metadata: the reads and the promise chain (clean-meta/index.js 184-260) *)
(***************************************************************************)
\* 185-192: metalsmith.readFile of an external file completes; the catch
\* invokes done and leaves undefined in filePromises
CleanFileRead(t) ==
  /\ pc = "async"
  /\ t \in 1..Len(tasks)
  /\ tasks[t].kind = "file"
  /\ tasks[t].st = "pending"
  /\ LET hits == {r \in disk.files : r.path = tasks[t].path /\ r.st = "ok"}
     IN IF hits = {}
          THEN /\ tasks' = [tasks EXCEPT ![t].st = "failed", ![t].reason = "ENOENT"]
               /\ doneLog' = Append(doneLog, Error("notFound", tasks[t].path))
          ELSE /\ tasks' = [tasks EXCEPT ![t].st = "resolved",
                              ![t].file = [present |-> TRUE,
                                           contents |-> (CHOOSE r \in hits : TRUE).contents]]
               /\ doneLog' = doneLog
  /\ UNCHANGED <<frontmatter, plugin, work, options, files, disk, tree, pc, idx, joined, thrown, hist>>

\* 196-209: readdir of an external directory completes; the then callback
\* returns nothing, the catch invokes done
CleanDirList(t) ==
  /\ pc = "async"
  /\ t \in 1..Len(tasks)
  /\ tasks[t].kind = "dir"
  /\ tasks[t].st = "listing"
  /\ IF tasks[t].path \in disk.dirs
       THEN /\ tasks' = [tasks EXCEPT ![t].st = "resolved"]
            /\ doneLog' = doneLog
       ELSE /\ tasks' = [tasks EXCEPT ![t].st = "resolved", ![t].reason = "ENOENT"]
            /\ doneLog' = Append(doneLog, Error("ENOENT", tasks[t].path))
  /\ UNCHANGED <<frontmatter, plugin, work, options, files, disk, tree, pc, idx, joined, thrown, hist>>

dirPromises(ts) == SelectSeq(ts, LAMBDA task : task.kind = "dir")
filePromises(ts) == SelectSeq(ts, LAMBDA task : task.kind # "dir")

\* 215-235, 256-260: Promise.all(dirPromises) is fulfilled; every file
\* listing is undefined, so filelist.map throws and the catch invokes done
CleanDirsJoined ==
  /\ pc = "async"
  /\ joined = "waiting"
  /\ \A t \in 1..Len(tasks) : tasks[t].st # "listing"
  /\ IF Len(dirPromises(tasks)) > 0
       THEN /\ doneLog' = Append(doneLog, Error("TypeError", <<>>))
            /\ joined' = "fired"
            /\ frontmatter' = [frontmatter EXCEPT !.setting = frontmatter.saved]
       ELSE /\ doneLog' = doneLog
            /\ joined' = "files"
            /\ frontmatter' = frontmatter
  /\ UNCHANGED <<plugin, work, options, files, disk, tree, pc, idx, tasks, thrown, hist>>

\* 238-251: the entries from entry j on; an undefined entry ends the loop
\* with a TypeError that goes to the catch of 256
RECURSIVE placeAll(_, _, _)
placeAll(entries, j, acc) ==
  IF j > Len(entries) THEN [acc EXCEPT !.doneLog = Append(@, NoError)]
  ELSE LET e == entries[j]
           ok == e.file.present /\ parsers(extension(e.path), e.file.contents)
           parsed == IF ok THEN ValueOf(e.file.contents.val) ELSE Undefined
       IN IF e.st = "failed"
            THEN [acc EXCEPT !.doneLog = Append(@, Error("TypeError", <<>>))]
            ELSE placeAll(entries, j + 1,
                   IF ok
                     THEN [acc EXCEPT !.tree = set(@, e.key, parsed),
                                      !.files = FilesDelete(@, e.path),
                                      !.hist = Append(@, Event(e.kind, e.key, e.path,
                                                               parsed, TRUE))]
                     ELSE [acc EXCEPT !.doneLog = Append(@, Error("malformed", e.path)),
                                      !.hist = Append(@, Event(e.kind, e.key, e.path,
                                                               parsed, FALSE))])

\* 236-260: Promise.all(filePromises) is fulfilled
CleanFilesJoined ==
  /\ pc = "async"
  /\ joined = "files"
  /\ \A t \in 1..Len(tasks) : tasks[t].st # "pending"
  /\ LET r == placeAll(filePromises(tasks), 1,
                       [tree |-> tree, files |-> files, doneLog |-> doneLog,
                        hist |-> hist])
     IN /\ tree' = r.tree
        /\ files' = r.files
        /\ doneLog' = r.doneLog
        /\ hist' = r.hist
  /\ joined' = "fired"
  /\ frontmatter' = [frontmatter EXCEPT !.setting = frontmatter.saved]
  /\ UNCHANGED <<plugin, work, options, disk, pc, idx, tasks, thrown>>

NextClean ==
  \/ CleanStart
  \/ CleanValidate
  \/ CleanDispatch
  \/ CleanReturn
  \/ \E t \in 1..Len(tasks) : CleanFileRead(t)
  \/ \E t \in 1..Len(tasks) : CleanDirList(t)
  \/ CleanDirsJoined
  \/ CleanFilesJoined

InitClean == InitOf("metadata")

SpecClean == InitClean /\ [][NextClean]_vars

(***************************************************************************)
(* Properties                                                              *)
(***************************************************************************)
Pending(ts) ==
  {t \in 1..Len(ts) : ts[t].st \in {"pending", "listing", "reading"}}

\* no callback of the run is left to run
Settled ==
  /\ pc = "async"
  /\ Pending(tasks) = {}
  /\ \A t \in 1..Len(tasks) : tasks[t].pending = {}
  /\ IF plugin = "metameta" THEN ~(joined = "waiting" /\ AllFulfilled(tasks))
     ELSE joined = "fired"

Last(s) == s[Len(s)]

HasKeyPath(t, key) == split(key) \in DOMAIN t

TwoSegments(key) == Len(split(key)) = 2

\* a step that processes a local specification or settles an external file
Processes(op) ==
  /\ Len(hist') = Len(hist) + 1
  /\ Last(hist').op = op

\* C1: in every run the completion callback done is invoked exactly once:
\* never a second time, and once the run has come to rest it has been
\* invoked.
C1_DoneExactlyOnce ==
  /\ Len(doneLog) <= 1
  /\ Settled => Len(doneLog) = 1

\* C2: the step that processes a Local File specification whose key k has no
\* '.' leaves tree[k] equal to the parsed content of the source file and the
\* source path out of the content set.
C2_LocalFilePlacedAndRemoved ==
  [][(Processes("localFile") /\ ~includes(Last(hist').key, <<".">>)) =>
       /\ Sub(tree', <<Last(hist').key>>) = Last(hist').val
       /\ Last(hist').path \notin FilesKeys(files')]_vars

\* C3: the step that places a local specification with a dotted key p.x binds
\* tree.p.x to the parsed value and leaves every sibling tree.p.y that an
\* earlier specification p.y placed as it was: with keys "a.b" and "a.c", in
\* either order, tree.a.b and tree.a.c hold the two parsed values.
C3_DottedKeysMerge ==
  [][\A op \in {"localFile", "localDir"} :
       (Processes(op) /\ Last(hist').placed /\ TwoSegments(Last(hist').key)) =>
         /\ Sub(tree', split(Last(hist').key)) = Last(hist').val
         /\ \A j \in 1..Len(hist) :
              ( /\ hist[j].placed
                /\ TwoSegments(hist[j].key)
                /\ split(hist[j].key)[1] = split(Last(hist').key)[1]
                /\ hist[j].key # Last(hist').key
                /\ Sub(tree, split(hist[j].key)) = hist[j].val )
              => Sub(tree', split(hist[j].key)) = hist[j].val]_vars

\* witness of C3: "a.b" and "a.c" have both been placed, and tree.a holds both
C3_Witness ==
  \E i, j \in 1..Len(hist) :
    /\ i < j
    /\ hist[i].placed /\ hist[j].placed
    /\ hist[i].key = <<"a", ".", "c">>
    /\ hist[j].key = <<"a", ".", "b">>
    /\ Sub(tree, <<<<"a">>, <<"c">>>>) = hist[i].val
    /\ Sub(tree, <<<<"a">>, <<"b">>>>) = hist[j].val

\* the External File specifications of the run and the file each one reads
ExternalFileSpecs ==
  LET g == groupMetadataSources(options, metalsmithSource)[3]
  IN {g[j] : j \in 1..Len(g)}

\* the value is bound at the destination key: at the property of that
\* name, or (a key with '.') at the nested key path
BoundAt(t, key, val) ==
  \/ Sub(t, <<key>>) = val
  \/ Sub(t, split(key)) = val

\* C4: when the External File specifications of a run point at valid files,
\* then at the invocation of done with no error the tree holds the parsed
\* content of each of them at its destination key, whatever the order in
\* which the reads completed.
C4_ExternalFilesAtDone ==
  ( /\ Len(options) > 0
    /\ doneLog # <<>>
    /\ Last(doneLog) = NoError
    /\ \A s \in ExternalFileSpecs : getExternalFile(join(s.path)).ok )
  => \A s \in ExternalFileSpecs :
       BoundAt(tree, s.key, getExternalFile(join(s.path)).val)

\* witness of C4: two external files with keys "k" and "m", the one
\* dispatched second was read first, done has been invoked and the tree
\* holds both
C4_Witness ==
  /\ joined = "fired"
  /\ Len(tasks) = 2
  /\ tasks[1].kind = "file" /\ tasks[2].kind = "file"
  /\ tasks[1].key = <<"k">> /\ tasks[2].key = <<"m">>
  /\ tasks[1].path # tasks[2].path
  /\ Len(hist) = 2
  /\ hist[1].key = <<"m">> /\ hist[2].key = <<"k">>
  /\ Sub(tree, <<<<"k">>>>) = hist[2].val
  /\ Sub(tree, <<<<"m">>>>) = hist[1].val
  /\ doneLog = <<NoError>>

\* C5: the completion callback is never invoked while an external task
\* dispatched in the run is still pending.
C5_DoneAfterAllSettled ==
  [][doneLog' # doneLog => Pending(tasks') = {}]_vars

\* C6: every run in which the plugin function returns ends with the
\* completion callback invoked, also when the read of an external file
\* failed: a run that has come to rest has invoked done.
C6_DoneEventually == Settled => Len(doneLog) >= 1

\* an external task failed: its file or directory is missing, its read
\* failed or its data is malformed
Failed(task) == task.reason \in {"ENOENT", "EIO", "malformed"}

\* C7: when an external task has failed and the run has come to rest, done
\* has been invoked with an error and never with no error.
C7_ExternalFailureReported ==
  (Settled /\ \E t \in 1..Len(tasks) : Failed(tasks[t])) =>
    /\ doneLog # <<>>
    /\ \A i \in 1..Len(doneLog) : doneLog[i].err # "none"

\* a directory specification whose directory holds at least one data file
LocalPrefix(s) == replace(s.path, metalsmithSource \o <<"/">>, <<>>)

DirectoryHasData(s) ==
  IF startsWith(s.path, metalsmithSource)
    THEN \E j \in 1..Len(files) : startsWith(files[j].path, LocalPrefix(s))
    ELSE \E r \in disk.files :
           /\ startsWith(r.path, join(s.path) \o <<"/">>)
           /\ extension(r.path) \in ParserExts

\* C8: whenever done has been invoked with no error, the key path of every
\* specification (of every file, and of every directory that has data files)
\* exists in the tree.
C8_NoErrorMeansAllMerged ==
  (\E i \in 1..Len(doneLog) : doneLog[i] = NoError) =>
    \A j \in 1..Len(options) :
      (extension(options[j].path) # <<>> \/ DirectoryHasData(options[j]))
        => HasKeyPath(tree, options[j].key)

\* the Local File specifications whose source file fails to parse
MalformedLocalFiles ==
  LET g == groupMetadataSources(options, metalsmithSource)[1]
  IN {s \in {g[j] : j \in 1..Len(g)} :
        /\ FilesIndex(files, LocalPrefix(s)) # 0
        /\ ~toJson(files[FilesIndex(files, LocalPrefix(s))].contents,
                   LocalPrefix(s)).ok}

\* C9: when a Local File specification names a file that fails to parse, the
\* run ends with done invoked exactly once, with a malformed-data error that
\* names the path; the tree has no entry for the failing specification and
\* the entries of the specifications processed before it are unchanged.
C9_MalformedLocalFile ==
  ((Settled \/ pc = "threw") /\ MalformedLocalFiles # {}) =>
    /\ Len(doneLog) = 1
    /\ doneLog[1].err = "malformed"
    /\ \E s \in MalformedLocalFiles : doneLog[1].path = LocalPrefix(s)
    /\ \A s \in MalformedLocalFiles : ~HasKeyPath(tree, s.key)
    /\ \A j \in 1..Len(hist) :
         hist[j].placed => Sub(tree, split(hist[j].key)) = hist[j].val

\* the values of the content-set entries whose path starts with prefix
PrefixValues(fs, prefix) ==
  LET m == SelectSeq(fs, LAMBDA f : startsWith(f.path, prefix))
  IN [j \in 1..Len(m) |-> toJson(m[j].contents, m[j].path).val]

\* C10: the sequence a Local Directory specification with prefix p places
\* holds one parsed value for exactly the content-set entries whose path
\* starts with p, in content-set order.
C10_LocalDirectoryByPrefix ==
  [][(Processes("localDir") /\ Last(hist').placed) =>
       Last(hist').val = ArrayOf(PrefixValues(files, Last(hist').path))]_vars

\* the source paths of the Local File specifications of the run
LocalFileSources ==
  {LocalPrefix(options[j]) :
     j \in {j \in 1..Len(options) :
              /\ startsWith(join(options[j].path), metalsmithSource)
              /\ extension(options[j].path) # <<>>}}

\* C11: no step of a run removes a content-set entry other than the source
\* entry of a Local File specification: the entries a Local Directory
\* specification aggregates, and all other entries, stay in the content set.
C11_LocalDirectoryKeepsFiles ==
  [][\A p \in FilesKeys(files) \ FilesKeys(files') : p \in LocalFileSources]_vars

\* the External Directory specifications of the run
ExternalDirSpecs ==
  LET g == groupMetadataSources(options, metalsmithSource)[4]
  IN {g[j] : j \in 1..Len(g)}

\* the files below an external directory, and the data files among them
FilesBelow(dir) == {r \in disk.files : startsWith(r.path, dir \o <<"/">>)}

DataFilesOf(dir) == {r \in FilesBelow(dir) : extension(r.path) \in ParserExts}

ValidData(r) == r.st = "ok" /\ parsers(extension(r.path), r.contents)

\* one key per data file: the path relative to the directory, without the
\* extension, bound to the parsed content
ExpectedDirectoryMapping(dir) ==
  GroupObject({[key |-> DirectoryFileKey(r.path, dir), val |-> r.contents.val] :
                 r \in DataFilesOf(dir)})

\* C12: when done has been invoked with no error, every External Directory
\* specification with an undotted key k whose directory holds data files
\* (all of them valid, and nothing else) has tree[k] equal to the mapping
\* from relative path without extension to parsed content.
C12_ExternalDirectoryMapping ==
  \A s \in ExternalDirSpecs :
    ( /\ doneLog # <<>>
      /\ Last(doneLog) = NoError
      /\ ~includes(s.key, <<".">>)
      /\ join(s.path) \in disk.dirs
      /\ DataFilesOf(join(s.path)) # {}
      /\ FilesBelow(join(s.path)) = DataFilesOf(join(s.path))
      /\ \A r \in DataFilesOf(join(s.path)) : ValidData(r) )
    => Sub(tree, <<s.key>>) = ExpectedDirectoryMapping(join(s.path))

\* C13: when the directory of a settled External Directory task with an
\* undotted key holds a file without a recognized extension next to valid
\* data files, the resolution has not failed and the tree holds the parsed
\* content of every data file under the destination key.
C13_NonDataFileSkipped ==
  \A t \in 1..Len(tasks) :
    ( /\ tasks[t].kind = "dir"
      /\ tasks[t].st = "resolved"
      /\ ~includes(tasks[t].key, <<".">>)
      /\ DataFilesOf(tasks[t].path) # {}
      /\ FilesBelow(tasks[t].path) # DataFilesOf(tasks[t].path)
      /\ \A r \in DataFilesOf(tasks[t].path) : ValidData(r) )
    => /\ ~Failed(tasks[t])
       /\ \A r \in DataFilesOf(tasks[t].path) :
            Sub(tree, <<tasks[t].key, DirectoryFileKey(r.path, tasks[t].path)>>)
              = ValueOf(r.contents.val)

\* the Local File specifications of the run
LocalFileSpecs ==
  LET g == groupMetadataSources(options, metalsmithSource)[1]
  IN {g[j] : j \in 1..Len(g)}

\* the Local File specifications whose path is not a key of the content set
MissingLocalFiles ==
  {s \in LocalFileSpecs : FilesIndex(files, LocalPrefix(s)) = 0}

\* C14: a run with a Local File specification whose path is absent from the
\* content set ends with done invoked, first with a not-found error that
\* names the specification's path, and with no exception out of the plugin
\* function.
C14_LocalNotFound ==
  ((Settled \/ pc = "threw") /\ MissingLocalFiles # {}) =>
    /\ pc # "threw"
    /\ doneLog # <<>>
    /\ doneLog[1].err = "notFound"
    /\ \E s \in MissingLocalFiles :
         doneLog[1].path \in {s.path, LocalPrefix(s), s.key}

\* the File specifications whose extension no parser is registered for
UnsupportedFileSpecs ==
  {s \in {options[j] : j \in 1..Len(options)} :
     extension(s.path) # <<>> /\ extension(s.path) \notin ParserExts}

\* C15: for a File specification with an unsupported extension no read is
\* ever started (no task is dispatched for it), and when the run has ended
\* done has been invoked with an unsupported-format error for it.
C15_UnsupportedBeforeIO ==
  \A s \in UnsupportedFileSpecs :
    /\ \A t \in 1..Len(tasks) : tasks[t].key # s.key
    /\ (Settled \/ pc = "threw") =>
         \E i \in 1..Len(doneLog) : doneLog[i].err = "unsupported"

HasError(log) == \E i \in 1..Len(log) : log[i].err # "none"

\* C16: once done has been invoked with an error of a local specification,
\* no step of the run dispatches an external task.
C16_NoDispatchAfterLocalError ==
  [][HasError(doneLog) => Len(tasks') = Len(tasks)]_vars

\* C17: in every run at most one error reaches the completion callback: a
\* later error is never passed to done in addition to the first.
C17_FirstErrorWins ==
  Cardinality({i \in 1..Len(doneLog) : doneLog[i].err # "none"}) <= 1

\* the Local Directory specifications processed so far that matched no
\* entry of the content set
EmptyLocalDirs ==
  {hist[j].key : j \in {j \in 1..Len(hist) :
                          hist[j].op = "localDir" /\ ~hist[j].placed}}

\* C18: once a Local Directory specification has matched zero entries of
\* the content set, done has been invoked with an error for it and is never
\* invoked with no error in the run.
C18_EmptyLocalDirectoryFails ==
  EmptyLocalDirs # {} =>
    /\ \E i \in 1..Len(doneLog) : doneLog[i].err = "NoFilesFound"
    /\ \A i \in 1..Len(doneLog) : doneLog[i] # NoError

\* the External Directory specifications whose directory exists and holds
\* no file
EmptyExternalDirs ==
  {s \in ExternalDirSpecs :
     join(s.path) \in disk.dirs /\ FilesBelow(join(s.path)) = {}}

\* every other specification of the run was resolved: each local
\* specification and each external file produced its value, no external
\* task failed
OthersResolved ==
  /\ \A j \in 1..Len(hist) : hist[j].placed
  /\ \A t \in 1..Len(tasks) : ~Failed(tasks[t])

\* C19: when a run with an External Directory specification whose directory
\* holds no file has come to rest and every other specification was
\* resolved, done has been invoked once, with no error, the destination key
\* of the empty directory is absent from the tree, and the value of every
\* other specification is bound at its key (of every one whose key shares its
\* first segment with no other key: a later placement at "a" or below it
\* rewrites tree.a).
C19_EmptyExternalDirectory ==
  (Settled /\ EmptyExternalDirs # {} /\ OthersResolved) =>
    /\ doneLog = <<NoError>>
    /\ \A s \in EmptyExternalDirs :
         Sub(tree, <<s.key>>) = Undefined /\ ~HasKeyPath(tree, s.key)
    /\ \A j \in 1..Len(hist) :
         (\A i \in 1..Len(hist) : i # j => split(hist[i].key)[1] # split(hist[j].key)[1])
           => BoundAt(tree, hist[j].key, hist[j].val)

\* witness of C19: the listing of the empty directory of key "k" has
\* settled, an external file of key "m" was read and placed, and the run is
\* at rest after done
C19_Witness ==
  /\ Settled
  /\ joined = "fired"
  /\ \E s \in EmptyExternalDirs : s.key = <<"k">>
  /\ \E t \in 1..Len(tasks) :
       tasks[t].kind = "dir" /\ tasks[t].st = "resolved" /\ tasks[t].got = {}
  /\ \E j \in 1..Len(hist) :
       /\ hist[j].op = "externalFile"
       /\ hist[j].key = <<"m">>
       /\ hist[j].placed
       /\ Sub(tree, <<<<"m">>>>) = hist[j].val

\* the position of a destination key in the option map
OptIndex(key) == CHOOSE j \in 1..Len(options) : options[j].key = key

\* C20: the local specifications are processed in the order of the option
\* map: of two processed local specifications, the one processed first
\* comes first in the map.
C20_LocalOrder ==
  \A i, j \in 1..Len(hist) :
    ( /\ i < j
      /\ hist[i].op \in {"localFile", "localDir"}
      /\ hist[j].op \in {"localFile", "localDir"} )
    => OptIndex(hist[i].key) < OptIndex(hist[j].key)

\* C21: a specification is in a local group exactly when its path, made
\* relative to the content root, does not start with "..": a "./"-prefixed
\* path inside the content root is local, a path in a sibling directory
\* whose name begins with the name of the content root is external.
C21_Classification ==
  \A j \in 1..Len(work) :
    (work[j].grp \in {"localFile", "localDir"})
      <=> ~startsWith(relpath(work[j].path), <<".", ".">>)

\* C22: at the step that settles an External File specification whose key
\* has a '.', the parsed value is at the nested key path of the tree.
C22_ExternalDottedKey ==
  [][(Processes("externalFile") /\ Last(hist').placed
        /\ includes(Last(hist').key, <<".">>)) =>
       Sub(tree', split(Last(hist').key)) = Last(hist').val]_vars

\* C23: when two local specifications with keys of three segments that share
\* the first two ("a.b.c", "a.b.d") have both been placed, the tree holds
\* both values at their key paths.
C23_DeepKeysMerge ==
  \A i, j \in 1..Len(hist) :
    ( /\ i < j
      /\ hist[i].placed /\ hist[j].placed
      /\ hist[i].op \in {"localFile", "localDir"}
      /\ hist[j].op \in {"localFile", "localDir"}
      /\ Len(split(hist[i].key)) = 3 /\ Len(split(hist[j].key)) = 3
      /\ SubSeq(split(hist[i].key), 1, 2) = SubSeq(split(hist[j].key), 1, 2)
      /\ hist[i].key # hist[j].key )
    => /\ Sub(tree, split(hist[i].key)) = hist[i].val
       /\ Sub(tree, split(hist[j].key)) = hist[j].val

\* the tree after the local placements of the first n events
RECURSIVE LocalTree(_, _)
LocalTree(h, n) ==
  IF n = 0 THEN InitialMetadata
  ELSE LET t == LocalTree(h, n - 1)
       IN IF h[n].op \in {"localFile", "localDir"} /\ h[n].placed
            THEN Place(t, h[n].key, h[n].val)
            ELSE t

\* the tree t0 after the external files of the first n tasks were placed in
\* the order of their dispatch
RECURSIVE DispatchOrderTree(_, _, _)
DispatchOrderTree(ts, n, t0) ==
  IF n = 0 THEN t0
  ELSE LET t == DispatchOrderTree(ts, n - 1, t0)
           r == getExternalFile(ts[n].path)
       IN IF ts[n].kind = "file" /\ r.ok THEN FilePlace(t, ts[n].key, r.val)
          ELSE t

\* C24: when every external task of a run has settled, the tree is the one
\* that the placements in dispatch order produce, whatever the order in
\* which the reads completed: runs that differ only in that order end with
\* equal trees.
C24_OrderIndependent ==
  (pc = "async" /\ Pending(tasks) = {}) =>
    tree = DispatchOrderTree(tasks, Len(tasks), LocalTree(hist, Len(hist)))

\* witness of C24: two external files, the one dispatched second ("k") was
\* read first, both are settled and placed
C24_Witness ==
  /\ pc = "async" /\ Pending(tasks) = {}
  /\ Len(tasks) = 2
  /\ tasks[1].kind = "file" /\ tasks[2].kind = "file"
  /\ tasks[1].key = <<"m">> /\ tasks[2].key = <<"k">>
  /\ Len(hist) = 2
  /\ hist[1].key = <<"k">> /\ hist[1].placed
  /\ hist[2].key = <<"m">> /\ hist[2].placed
  /\ hist[1].val # hist[2].val

\* C25: no step writes to the tree after the plugin function has returned
\* unless every external task of the run has settled by then: the results
\* of the external tasks are placed after the collective wait.
C25_PlacementInJoin ==
  [][(pc = "async" /\ tree' # tree) => Pending(tasks') = {}]_vars

\* C26: no step adds a key to the content set or renames one: the keys after
\* a step are keys before it, so the keys of every reachable state are keys
\* of the content set the run started with.
C26_ContentKeysShrink ==
  [][FilesKeys(files') \subseteq FilesKeys(files)]_vars

\* witness of C26: a source was parsed, placed and deleted from the content
\* set, and other entries are still there
C26_Witness ==
  /\ joined = "fired"
  /\ Len(files) > 0
  /\ \E j \in 1..Len(hist) :
       /\ hist[j].placed
       /\ hist[j].path = F1
       /\ F1 \notin FilesKeys(files)

\* C27: every key path of the tree before a step is a key path of the tree
\* after it.
C27_KeyPathsGrow ==
  [][DOMAIN tree \subseteq DOMAIN tree']_vars

\* C28: the step that places a local specification whose key k has no '.'
\* leaves tree[k] equal to the new value, whatever tree[k] held before.
C28_DirectAssign ==
  [][\A op \in {"localFile", "localDir"} :
       (Processes(op) /\ Last(hist').placed /\ ~includes(Last(hist').key, <<".">>))
         => Sub(tree', <<Last(hist').key>>) = Last(hist').val]_vars

\* witness of C28: "a.b" was placed, then "a" was placed over it, and tree.a
\* is the value of "a" alone
C28_Witness ==
  \E i, j \in 1..Len(hist) :
    /\ i < j
    /\ hist[i].key = <<"a", ".", "b">> /\ hist[i].placed
    /\ hist[j].key = <<"a">> /\ hist[j].placed
    /\ Sub(tree, <<<<"a">>>>) = hist[j].val
    /\ <<<<"a">>, <<"b">>>> \notin DOMAIN tree

\* the data a content-set entry encodes
SourceData(p) == files[FilesIndex(files, p)].contents.val

\* the placed Local File specifications
PlacedLocalFiles ==
  {j \in 1..Len(hist) : hist[j].op = "localFile" /\ hist[j].placed}

C30_NoMutationAfterDone ==
  [][doneLog # <<>> => (tree' = tree /\ files' = files)]_vars

\* C31: a run with an empty option map invokes done at most once, has
\* invoked it once with no error when it has come to rest, and leaves the
\* tree and the content set as they were.
C31_EmptyOptions ==
  Len(options) = 0 =>
    /\ Len(doneLog) <= 1
    /\ Settled => doneLog = <<NoError>>
    /\ tree = InitialMetadata
    /\ \E w \in Worlds : files = w.files

\* C32: the step that processes a Local File specification removes from the
\* content set no entry other than the one at the source path of the
\* specification.
C32_LocalFileDeletesOnlySource ==
  [][Processes("localFile") =>
       FilesKeys(files) \ FilesKeys(files') \subseteq {Last(hist').path}]_vars

\* the entries a Local Directory scan of prefix p finds when the sources of
\* the Local File specifications in taken are no longer in the content set
ScanWithout(fs, p, taken) ==
  LET m == SelectSeq(fs, LAMBDA f : includes(f.path, p) /\ f.path \notin taken)
  IN [j \in 1..Len(m) |-> toJson(m[j].contents, m[j].path).val]

\* C33: the sequence a Local Directory specification places does not hold
\* the content of a file that a Local File specification of the run has
\* consumed before.
C33_ConsumedFileNotAggregated ==
  \A j \in 1..Len(hist) :
    (hist[j].op = "localDir" /\ hist[j].placed) =>
      LET taken == {hist[i].path : i \in {i \in 1..(j - 1) :
                       hist[i].op = "localFile" /\ hist[i].placed}}
      IN (\E q \in taken : includes(q, hist[j].path)) =>
           hist[j].val = ArrayOf(ScanWithout(files, hist[j].path, taken))

\* C34: groupMetadataSources puts every specification of the option map in
\* exactly one group and keeps the order of the map inside each group.
C34_GroupsPartition ==
  LET g == groupMetadataSources(options, metalsmithSource)
  IN pc = "start" =>
     /\ \A j \in 1..Len(options) :
          Cardinality({x \in (1..4) \X (1..Len(options)) :
                         x[2] <= Len(g[x[1]]) /\ g[x[1]][x[2]] = options[j]}) = 1
     /\ Len(g[1]) + Len(g[2]) + Len(g[3]) + Len(g[4]) = Len(options)
     /\ \A n \in 1..4 : \A i, j \in 1..Len(g[n]) :
          i < j => OptIndex(g[n][i].key) < OptIndex(g[n][j].key)

\* witness of C34: the option map names a local file after a local
\* directory, the groups are taken and the file comes first in the work
C34_Witness ==
  /\ pc = "sync"
  /\ Len(options) = 2 /\ Len(work) = 2
  /\ work[1].grp = "localFile" /\ work[1].key = options[2].key
  /\ work[2].grp = "localDir" /\ work[2].key = options[1].key

\* C35: in clean-meta, set(host, keypath, value) leaves the key path bound
\* to the value: after the last set of a run, walking the metadata tree along
\* the segments of its key path reaches the parsed value, also when a segment
\* on the way was bound to a scalar before.
C35_SetBinds ==
  (plugin = "metadata" /\ joined = "fired" /\ hist # <<>> /\ Last(hist).placed) =>
    Sub(tree, split(Last(hist).key)) = Last(hist).val

\* the Directory specifications of the option map in clean-meta (136-145:
\* a source path without extension) whose directory holds data files
CleanDirectorySpecs ==
  {j \in 1..Len(options) :
     /\ extension(options[j].path) = <<>>
     /\ LET srcPath == relpath(options[j].path)
        IN IF startsWith(srcPath, <<".", ".">>)
             THEN DataFilesOf(join(options[j].path)) # {}
             ELSE Len(match(SelectSeq(FilePaths(files),
                    LAMBDA f : startsWith(f, srcPath \o <<"/">>)))) > 0}

\* C36: in clean-meta, done is never invoked with an unsupported-data-format
\* error for a Directory specification whose directory holds data files.
C36_DirectoryNotRejected ==
  plugin = "metadata" =>
    \A j \in CleanDirectorySpecs :
      \A i \in 1..Len(doneLog) : doneLog[i] # Error("unsupported", options[j].path)

\* the data files readdir lists for an external directory: the valid data
\* files directly below it
ListedDataFiles(dir) ==
  {r \in DataFilesOf(dir) : r.path = dir \o <<"/">> \o basename(r.path) /\ ValidData(r)}

\* C37: in clean-meta, when the run of an External Directory specification
\* with key d whose directory lists data files has come to rest, done has
\* been invoked with no error and the tree holds, for each listed data file,
\* its parsed content at d.<basename without extension>.
C37_CleanExternalDirectory ==
  (plugin = "metadata" /\ joined = "fired" /\ Len(options) = 1) =>
    LET d == options[1].key
        dir == join(options[1].path)
    IN ( /\ startsWith(relpath(options[1].path), <<".", ".">>)
         /\ extension(options[1].path) = <<>>
         /\ dir \in disk.dirs
         /\ ListedDataFiles(dir) # {} )
       => /\ ~HasError(doneLog)
          /\ \A r \in ListedDataFiles(dir) :
               Sub(tree, split(d) \o <<stem(r.path)>>) = ValueOf(r.contents.val)

\* C38: in clean-meta, a single-file specification with key k has its parsed
\* content placed at the key path k, for a local file and for an external
\* file alike.
C38_SingleFileSameKey ==
  ( /\ plugin = "metadata" /\ joined = "fired"
    /\ Len(options) = 1 /\ extension(options[1].path) # <<>>
    /\ hist # <<>> /\ Last(hist).placed )
  => /\ Last(hist).key = options[1].key
     /\ Sub(tree, split(options[1].key)) = Last(hist).val

\* a step in which metalsmith.readFile reads a file for clean-meta
CleanReads ==
  \E t \in 1..Len(tasks) :
    /\ tasks[t].kind = "file"
    /\ tasks[t].st = "pending"
    /\ tasks'[t].st # "pending"

\* C39: in clean-meta, every file read through metalsmith.readFile happens
\* with frontmatter parsing switched off, and when done is invoked by the end
\* of the promise chain the setting that was in force before the plugin ran
\* is in force again.
C39_FrontmatterOff ==
  [][/\ CleanReads => ~frontmatter.setting
     /\ (plugin = "metadata" /\ joined' = "fired" /\ joined # "fired")
          => frontmatter'.setting = frontmatter.saved]_vars

(***************************************************************************)
(* The timer-based iteration (metalsmith-metameta/index-copy.js 33-208)    *)
(***************************************************************************)
\* a content-set entry below the directory "cfg"
CE == <<"cfg", "/", "e", ".", "json">>

TimerFiles ==
  << [path |-> F1, contents |-> Bytes("json", "A")],
     [path |-> F2, contents |-> Bytes("yaml", "B")],
     [path |-> CE, contents |-> Bytes("json", "E")],
     [path |-> F4, contents |-> Bytes("page", "P")] >>

\* a disk whose directory ext/dir holds one JSON file and nothing else
DiskJson ==
  [files |-> {DiskFile(X1, "ok", "json", "E"), DiskFile(XDa, "ok", "json", "D1")},
   dirs |-> {XD}]

TimerWorlds ==
  {[files |-> TimerFiles, disk |-> d] :
     d \in {DiskJson, DiskGood, DiskNoX1, DiskBadX1, DiskEmptyDir, DiskNoDir}}
    \cup {[files |-> FilesPage, disk |-> DiskJson]}

\* the paths of the option map, written relative to the content root ("./")
\* or to the project root ("../"), and one path with neither prefix
TimerPaths ==
  { <<".", "/">> \o F1, <<".", "/">> \o F2, <<".", "/">> \o F3,
    <<".", "/", "cfg">>,
    <<".", ".", "/">> \o X1, <<".", ".", "/">> \o X2, <<".", ".", "/">> \o XD,
    metalsmithSource \o <<"/">> \o F1 }

TimerSpecs == [key : {<<"k">>, <<"m">>}, path : TimerPaths]

TimerOptionMaps ==
  UNION { { s \in [1..n -> TimerSpecs] :
              \A i, j \in 1..n : i # j => s[i].key # s[j].key } :
          n \in 0..MaxSpecs }

InitTimer ==
  /\ plugin = "timer"
  /\ options \in TimerOptionMaps
  /\ \E w \in TimerWorlds : files = w.files /\ disk = w.disk
  /\ tree = InitialMetadata
  /\ pc = "start"
  /\ work = <<>>
  /\ idx = 1
  /\ tasks = <<>>
  /\ joined = "none"
  /\ doneLog = <<>>
  /\ thrown = NoError
  /\ hist = <<>>
  /\ frontmatter = [setting |-> TRUE, saved |-> "none"]

\* 48-49
isLocal(metaFilePath) == startsWith(metaFilePath, <<".", "/">>)
isExternal(metaFilePath) == startsWith(metaFilePath, <<".", ".", "/">>)

\* 58, 103: metaFilePath.slice(n)
slice(metaFilePath, n) == SubSeq(metaFilePath, n + 1, Len(metaFilePath))

\* 64, 108
TimerDataExts == { <<".", "json">>, <<".", "yaml">>, <<".", "yml">> }

\* JSON.parse(bytes) returns (73, 85, 119, 152)
JSONparse(bytes) == bytes.enc = "json"

\* 37-43: the plugin function is entered
TimerStart ==
  /\ plugin = "timer"
  /\ pc = "start"
  /\ pc' = "sync"
  /\ UNCHANGED <<frontmatter, plugin, work, options, files, disk, tree, idx, tasks, joined,
                 doneLog, thrown, hist>>

\* 56-79: a local file with a data extension; a missing entry makes the
\* callback of forEach return after done(error), a JSON.parse that throws
\* leaves the plugin function
TimerLocalFile ==
  /\ plugin = "timer"
  /\ pc = "sync"
  /\ idx <= Len(options)
  /\ LET option == options[idx].key
         metaFilePath == options[idx].path
         key == slice(metaFilePath, 2)
         pos == FilesIndex(files, key)
     IN /\ isLocal(metaFilePath)
        /\ extension(metaFilePath) \in TimerDataExts
        /\ IF pos = 0
             THEN /\ doneLog' = Append(doneLog, Error("TypeError", key))
                  /\ idx' = idx + 1
                  /\ UNCHANGED <<frontmatter, plugin, work, options, files, disk, tree, pc, tasks,
                                 joined, thrown, hist>>
           ELSE IF ~JSONparse(files[pos].contents)
             THEN Throw(Error("malformed", key))
           ELSE /\ tree' = SetProp(tree, option, ValueOf(files[pos].contents.val))
                /\ files' = FilesDelete(files, key)
                /\ hist' = Append(hist, Event("localFile", option, key,
                                              ValueOf(files[pos].contents.val), TRUE))
                /\ idx' = idx + 1
                /\ UNCHANGED <<frontmatter, plugin, work, options, disk, pc, tasks, joined,
                               doneLog, thrown>>

\* 80-98: a local directory: every entry whose path includes the key
TimerLocalDir ==
  /\ plugin = "timer"
  /\ pc = "sync"
  /\ idx <= Len(options)
  /\ LET option == options[idx].key
         metaFilePath == options[idx].path
         key == slice(metaFilePath, 2)
         matches == SelectSeq(files, LAMBDA f : includes(f.path, key))
         failing == {j \in 1..Len(matches) : ~JSONparse(matches[j].contents)}
         groupMetadata == ArrayOf([j \in 1..Len(matches) |->
                                     ValueOf(matches[j].contents.val)])
     IN /\ isLocal(metaFilePath)
        /\ extension(metaFilePath) = <<>>
        /\ IF failing # {}
             THEN Throw(Error("malformed",
                              matches[CHOOSE f \in failing :
                                        \A g \in failing : f <= g].path))
           ELSE /\ tree' = IF Len(matches) > 0 THEN SetProp(tree, option, groupMetadata)
                           ELSE tree
                /\ hist' = Append(hist, Event("localDir", option, key, groupMetadata,
                                              Len(matches) > 0))
                /\ idx' = idx + 1
                /\ UNCHANGED <<frontmatter, plugin, work, options, files, disk, pc, tasks,
                               joined, doneLog, thrown>>

\* 101-133: the read of an external file is started
TimerExternalFile ==
  /\ plugin = "timer"
  /\ pc = "sync"
  /\ idx <= Len(options)
  /\ isExternal(options[idx].path)
  /\ extension(options[idx].path) \in TimerDataExts
  /\ tasks' = Append(tasks, NewTask("file", options[idx].key,
                                    slice(options[idx].path, 3), "pending"))
  /\ idx' = idx + 1
  /\ UNCHANGED <<frontmatter, plugin, work, options, files, disk, tree, pc, joined, doneLog,
                 thrown, hist>>

\* 134-175: the listing of an external directory is started
TimerExternalDir ==
  /\ plugin = "timer"
  /\ pc = "sync"
  /\ idx <= Len(options)
  /\ isExternal(options[idx].path)
  /\ extension(options[idx].path) = <<>>
  /\ tasks' = Append(tasks, NewTask("dir", options[idx].key,
                                    slice(options[idx].path, 3), "listing"))
  /\ idx' = idx + 1
  /\ UNCHANGED <<frontmatter, plugin, work, options, files, disk, tree, pc, joined, doneLog,
                 thrown, hist>>

\* 51, 178-181: validFilepath is still false: the path has neither prefix, or
\* an extension other than .json, .yaml, .yml; done(error) and the loop goes
\* on
TimerInvalid ==
  /\ plugin = "timer"
  /\ pc = "sync"
  /\ idx <= Len(options)
  /\ LET metaFilePath == options[idx].path
     IN /\ \/ ~isLocal(metaFilePath) /\ ~isExternal(metaFilePath)
           \/ extension(metaFilePath) \notin TimerDataExts \cup {<<>>}
        /\ doneLog' = Append(doneLog, Error("invalidPath", metaFilePath))
  /\ idx' = idx + 1
  /\ UNCHANGED <<frontmatter, plugin, work, options, files, disk, tree, pc, tasks, joined,
                 thrown, hist>>

\* 200-207: setTimeout registers the callback, the plugin function returns
TimerReturn ==
  /\ plugin = "timer"
  /\ pc = "sync"
  /\ idx > Len(options)
  /\ joined' = "waiting"
  /\ pc' = "async"
  /\ UNCHANGED <<frontmatter, plugin, work, options, files, disk, tree, idx, tasks, doneLog,
                 thrown, hist>>

\* 123, 163: process.exit(1)
TimerExit(t) ==
  /\ pc' = "exit"
  /\ tasks' = [tasks EXCEPT ![t].st = "failed"]
  /\ UNCHANGED <<frontmatter, plugin, work, options, files, disk, tree, idx, joined, doneLog,
                 thrown, hist>>

\* 113-124: readFile of an external file completes; the then callback
\* parses and assigns, the catch ends the process
TimerFileRead(t) ==
  /\ plugin = "timer"
  /\ pc = "async"
  /\ t \in 1..Len(tasks)
  /\ tasks[t].kind = "file"
  /\ tasks[t].st = "pending"
  /\ LET hits == {r \in disk.files : r.path = tasks[t].path /\ r.st = "ok"
                                       /\ JSONparse(r.contents)}
     IN IF hits = {} THEN TimerExit(t)
        ELSE LET v == ValueOf((CHOOSE r \in hits : TRUE).contents.val)
             IN /\ tree' = SetProp(tree, tasks[t].key, v)
                /\ tasks' = [tasks EXCEPT ![t].st = "resolved"]
                /\ hist' = Append(hist, Event("file", tasks[t].key, tasks[t].path, v, TRUE))
                /\ UNCHANGED <<frontmatter, plugin, work, options, files, disk, pc, idx,
                               joined, doneLog, thrown>>

\* 140-169: readdir completes; its rejection has no handler, and whether the
\* process goes on after an unhandled rejection depends on the Node version
TimerDirList(t) ==
  /\ plugin = "timer"
  /\ pc = "async"
  /\ t \in 1..Len(tasks)
  /\ tasks[t].kind = "dir"
  /\ tasks[t].st = "listing"
  /\ IF tasks[t].path \in disk.dirs
       THEN /\ tasks' = [tasks EXCEPT ![t].st = "reading"]
            /\ pc' = pc
       ELSE /\ tasks' = [tasks EXCEPT ![t].st = "rejected", ![t].reason = "ENOENT"]
            /\ pc' \in {"async", "exit"}
  /\ UNCHANGED <<frontmatter, plugin, work, options, files, disk, tree, idx, joined, doneLog,
                 thrown, hist>>

\* the names readdir lists: the files directly below dir, and whether one of
\* the names is a directory (readFile of it fails)
DirectFiles(dir) ==
  {r \in FilesBelow(dir) : r.path = dir \o <<"/">> \o basename(r.path)}

RECURSIVE SeqOfSet(_)
SeqOfSet(S) ==
  IF S = {} THEN <<>>
  ELSE LET x == CHOOSE y \in S : TRUE IN <<x>> \o SeqOfSet(S \ {x})

\* 142-164: Promise.all of the reads of the listed names is settled; the
\* then callback parses every buffer and assigns the array, the catch ends
\* the process
TimerDirRead(t) ==
  /\ plugin = "timer"
  /\ pc = "async"
  /\ t \in 1..Len(tasks)
  /\ tasks[t].kind = "dir"
  /\ tasks[t].st = "reading"
  /\ LET dir == tasks[t].path
         listed == SeqOfSet(DirectFiles(dir))
         ok == /\ FilesBelow(dir) = DirectFiles(dir)
               /\ \A r \in DirectFiles(dir) : r.st = "ok" /\ JSONparse(r.contents)
         groupMetadata == ArrayOf([j \in 1..Len(listed) |-> ValueOf(listed[j].contents.val)])
     IN IF ~ok THEN TimerExit(t)
        ELSE /\ tree' = IF Len(listed) > 0 THEN SetProp(tree, tasks[t].key, groupMetadata)
                        ELSE tree
             /\ tasks' = [tasks EXCEPT ![t].st = "resolved"]
             /\ hist' = Append(hist, Event("dir", tasks[t].key, dir, groupMetadata,
                                           Len(listed) > 0))
             /\ UNCHANGED <<frontmatter, plugin, work, options, files, disk, pc, idx, joined,
                            doneLog, thrown>>

\* 200-205: the timeout of 5 ms expires and its callback invokes done()
TimerFire ==
  /\ plugin = "timer"
  /\ pc = "async"
  /\ joined = "waiting"
  /\ doneLog' = Append(doneLog, NoError)
  /\ joined' = "fired"
  /\ UNCHANGED <<frontmatter, plugin, work, options, files, disk, tree, pc, idx, tasks,
                 thrown, hist>>

NextTimer ==
  \/ TimerStart
  \/ TimerLocalFile
  \/ TimerLocalDir
  \/ TimerExternalFile
  \/ TimerExternalDir
  \/ TimerInvalid
  \/ TimerReturn
  \/ \E t \in 1..Len(tasks) : TimerFileRead(t)
  \/ \E t \in 1..Len(tasks) : TimerDirList(t)
  \/ \E t \in 1..Len(tasks) : TimerDirRead(t)
  \/ TimerFire

SpecTimer == InitTimer /\ [][NextTimer]_vars

\* C40: in the timer-based iteration, the callback of the timeout invokes
\* done only when every external file and directory read started in the run
\* has completed, whatever the order of the timer and the read completions.
C40_TimerAfterReads ==
  [][(plugin = "timer" /\ joined = "waiting" /\ joined' = "fired")
       => Pending(tasks) = {}]_vars

====
